---- MODULE Spec2Model ----
(***************************************************************************)
(* Model of the web-audit job service: the Flask routes of app.py          *)
(* (analyze, status, result), the worker _run_analysis with its _progress  *)
(* callback and the sweep _cleanup_old_jobs, over the in-memory registry   *)
(* _jobs guarded by _jobs_lock; and of the breadth-first crawl             *)
(* WebsiteAnalyzer.crawl_site of analyzer.py.                              *)
(*                                                                         *)
(* Strings are sequences of symbols.  A symbol is one character (" ", "/", *)
(* ":", "-", a digit) or an opaque chunk of text that contains none of     *)
(* these characters ("http://", "Crawled", a host name, a fixed message).  *)
(* Python's None is the empty sequence where a field is "None or a value". *)
(***************************************************************************)
EXTENDS Integers, Sequences, FiniteSets, TLC

\* ------------------------------------------------------------------ bounds
MaxJobs == 2          \* job ids handed out by uuid4 are 1..MaxJobs
MaxTicks == 2         \* number of clock advances
MaxCallbacks == 1     \* progress callbacks per job
MaxCount == 3         \* page counts N, M of a progress detail are 0..MaxCount

\* --------------------------------------------------------- program constants
JOB_TTL_SECONDS == 3600
DEFAULT_MAX_PAGES == 20
MIN_PAGES == 1
MAX_PAGES == 100

JobIds == 1..MaxJobs

\* ------------------------------------------------------------------ strings
SP == " "
HTTP == "http://"
HTTPS == "https://"
Digits == {"0", "1", "2", "3", "4", "5", "6", "7", "8", "9"}

DigitVal(c) ==
  CASE c = "0" -> 0 [] c = "1" -> 1 [] c = "2" -> 2 [] c = "3" -> 3
    [] c = "4" -> 4 [] c = "5" -> 5 [] c = "6" -> 6 [] c = "7" -> 7
    [] c = "8" -> 8 [] c = "9" -> 9

RECURSIVE LStrip(_)
LStrip(s) == IF s # <<>> /\ Head(s) = SP THEN LStrip(Tail(s)) ELSE s

RECURSIVE RStrip(_)
RStrip(s) ==
  IF s # <<>> /\ s[Len(s)] = SP THEN RStrip(SubSeq(s, 1, Len(s) - 1)) ELSE s

\* str.strip()
Strip(s) == RStrip(LStrip(s))

\* str.startswith(("http://", "https://"))
StartsWithScheme(s) == s # <<>> /\ Head(s) \in {HTTP, HTTPS}

\* index of the first occurrence of symbol c in s, 0 when there is none
RECURSIVE IndexOf(_, _, _)
IndexOf(s, c, i) ==
  IF i > Len(s) THEN 0 ELSE IF s[i] = c THEN i ELSE IndexOf(s, c, i + 1)

\* str.split(sep) for a one-character separator: always at least one part
RECURSIVE SplitOn(_, _)
SplitOn(s, c) ==
  LET i == IndexOf(s, c, 1)
  IN  IF i = 0 THEN <<s>>
      ELSE <<SubSeq(s, 1, i - 1)>> \o SplitOn(SubSeq(s, i + 1, Len(s)), c)

\* str.split(): the maximal runs of non-whitespace symbols
RECURSIVE SplitWs(_)
SplitWs(s) ==
  LET t == LStrip(s)
      i == IndexOf(t, SP, 1)
  IN  IF t = <<>> THEN <<>>
      ELSE IF i = 0 THEN <<t>>
      ELSE <<SubSeq(t, 1, i - 1)>> \o SplitWs(SubSeq(t, i + 1, Len(t)))

RECURSIVE DigitsVal(_, _)
DigitsVal(s, acc) ==
  IF s = <<>> THEN acc ELSE DigitsVal(Tail(s), 10 * acc + DigitVal(Head(s)))

AllDigits(s) == s # <<>> /\ \A i \in 1..Len(s) : s[i] \in Digits

\* int(str): surrounding whitespace, an optional sign, then digits only.
\* IntOk is FALSE where Python raises ValueError.
IntOk(s) ==
  LET t == Strip(s)
  IN  \/ AllDigits(t)
      \/ t # <<>> /\ Head(t) \in {"-", "+"} /\ AllDigits(Tail(t))

IntVal(s) ==
  LET t == Strip(s)
  IN  IF Head(t) = "-" THEN 0 - DigitsVal(Tail(t), 0)
      ELSE IF Head(t) = "+" THEN DigitsVal(Tail(t), 0)
      ELSE DigitsVal(t, 0)

\* int(x) of a float quotient a/b, b > 0: truncation toward zero
TruncDiv(a, b) == IF a >= 0 THEN a \div b ELSE 0 - ((0 - a) \div b)

Max(a, b) == IF a >= b THEN a ELSE b
Min(a, b) == IF a <= b THEN a ELSE b

\* -------------------------------------------------------------------- hosts
UP == "example.com"               \* a host whose pages can be fetched
DOWN == "no-such-host.invalid"    \* a host for which every fetch fails

\* -------------------------------------------------------------------- state
VARIABLES
  clock,    \* time.time(), in seconds
  nticks,   \* clock advances so far
  jobs,     \* keys of _jobs
  rec,      \* the dict object of each job id (it outlives its key in _jobs)
  nextId,   \* next job id uuid4 hands out
  args,     \* (url, max_pages) handed to each worker thread
  wpc,      \* position of each worker thread in _run_analysis
  wexc,     \* exception in flight in the worker: <<>> or <<exception>>
  wraised,  \* an exception was raised inside the worker's task
  wres,     \* value returned by analyzer.analyze(): <<>> or <<report>>
  wnow,     \* `now` read by the worker's _cleanup_old_jobs
  ncb,      \* progress callbacks made by each worker
  cpc,      \* position of the request thread inside its route
  cjob,     \* job id of the request being served (0: none)
  cref,     \* the request holds a reference to rec[cjob]: status at the get
  cpay,     \* fields read so far by status()
  cseen,    \* snapshots rec[cjob] went through since status() got it
  cimm,     \* the status request directly follows the submit of cjob
  req,      \* body of the last POST /analyze
  resp,     \* response of the last request, until the next one is received
  kpc,            \* position of a WebsiteAnalyzer inside crawl_site
  self_url,       \* self.url
  self_max_pages, \* self.max_pages
  base_domain,    \* self.base_domain
  visited_urls,   \* self.visited_urls
  queue,          \* crawl_site: queue
  visited,        \* crawl_site: visited
  pages,          \* crawl_site: pages, as (current_url, soup, resp)
  fetches,        \* the requests.get calls made so far, with their outcome
  ppc,            \* position inside _check_broken_links_for_page
  on_page_url,    \* its page_url
  bl_links,       \* its links, as listed at line 257
  bl_next,        \* index in bl_links of the next link of the for loop
  bl,             \* its broken and working lists
  httplog,        \* requests.head / requests.get calls of link checks
  apc,            \* position inside analyze() once the crawl has returned
  anext,          \* index in pages of the next page of the for loop
  agg,            \* the accumulators of analyze()
  report,         \* what analyze() returned: <<>> or <<results>>
  calls           \* the checker calls made so far, in order

crawlVars == <<kpc, self_url, self_max_pages, base_domain, visited_urls, queue,
               visited, pages, fetches>>

vars == <<clock, nticks, jobs, rec, nextId, args, wpc, wexc, wraised, wres,
          wnow, ncb, cpc, cjob, cref, cpay, cseen, cimm, req, resp,
          kpc, self_url, self_max_pages, base_domain, visited_urls, queue,
          visited, pages, fetches,
          ppc, on_page_url, bl_links, bl_next, bl, httplog,
          apc, anext, agg, report, calls>>

probeVars == <<ppc, on_page_url, bl_links, bl_next, bl, httplog>>
aggVars == <<apc, anext, agg, report, calls>>
analyzerVars == <<crawlVars, probeVars, aggVars>>

workerVars == <<wpc, wexc, wraised, wres, wnow, ncb>>
clientVars == <<cpc, cjob, cref, cpay, cseen, cimm, req, resp>>
timeVars == <<clock, nticks>>

Terminal == {"done", "error"}

\* fixed message texts
MsgQueued == <<"Job queued - starting shortly">>
MsgComplete == <<"Analysis complete">>
MsgFailedPrefix == <<"Analysis failed: ">>
MsgNoPages == <<"Could not fetch any pages from this URL.">>
MsgNotFound == <<"Job not found">>
MsgBadUrl == <<"Please provide a valid URL">>
MsgInternal == <<"Internal Server Error">>

NoRec ==
  [status |-> "absent", stage |-> "absent", detail |-> <<>>, progress |-> 0,
   result |-> <<>>, error |-> <<>>, created_at |-> 0, url |-> <<>>]

NoArgs == [url |-> <<>>, max_pages |-> 0]
NoPayload == [status |-> "", stage |-> "", detail |-> <<>>, progress |-> 0]

\* JSON values of a request body; a key that is absent has kind "missing"
Missing == [kind |-> "missing", num |-> 0, str |-> <<>>]
Null == [kind |-> "null", num |-> 0, str |-> <<>>]
JStr(s) == [kind |-> "str", num |-> 0, str |-> s]
JInt(n) == [kind |-> "int", num |-> n, str |-> <<>>]

NoReq == [url |-> Missing, max_pages |-> Missing]
NoResp == [op |-> "none", code |-> 0, job |-> 0, imm |-> FALSE,
           payload |-> NoPayload, error |-> <<>>, report |-> <<>>,
           progress |-> 0]

Snap(r) == [status |-> r.status, stage |-> r.stage, detail |-> r.detail,
            progress |-> r.progress]

\* no WebsiteAnalyzer has been constructed
NoCrawl ==
  /\ kpc = "none" /\ self_url = <<>> /\ self_max_pages = 0
  /\ base_domain = "" /\ visited_urls = {}
  /\ queue = <<>> /\ visited = {} /\ pages = <<>> /\ fetches = <<>>

NoBl == [broken |-> <<>>, working |-> <<>>]

\* no link check is running
NoProbe ==
  /\ ppc = "none" /\ on_page_url = <<>> /\ bl_links = <<>> /\ bl_next = 1
  /\ bl = NoBl /\ httplog = <<>>

\* the checks whose results are aggregated per category
Categories ==
  {"security", "performance", "rendering", "seo", "accessibility", "mobile"}

\* Lines 89-102: the accumulators before the first page
NoAgg ==
  [issues |-> [c \in Categories |-> <<>>],
   good |-> [c \in Categories |-> <<>>],
   scores |-> [c \in Categories |-> <<>>],
   agg_broken |-> <<>>, seen_broken_urls |-> {}, agg_working_count |-> 0,
   per_page_summary |-> <<>>]

\* analyze() has not gone past the crawl
NoAnalysis ==
  /\ apc = "none" /\ anext = 1 /\ agg = NoAgg /\ report = <<>>
  /\ calls = <<>>

\* the service at start-up: an empty registry, no thread running
InitService ==
  /\ clock = 0 /\ nticks = 0
  /\ jobs = {} /\ rec = [j \in JobIds |-> NoRec] /\ nextId = 1
  /\ args = [j \in JobIds |-> NoArgs]
  /\ wpc = [j \in JobIds |-> "none"]
  /\ wexc = [j \in JobIds |-> <<>>]
  /\ wraised = [j \in JobIds |-> FALSE]
  /\ wres = [j \in JobIds |-> <<>>]
  /\ wnow = [j \in JobIds |-> 0]
  /\ ncb = [j \in JobIds |-> 0]
  /\ cpc = "idle" /\ cjob = 0 /\ cref = "" /\ cpay = NoPayload
  /\ cseen = {} /\ cimm = FALSE
  /\ req = NoReq /\ resp = NoResp

Init == InitService /\ NoCrawl /\ NoProbe /\ NoAnalysis

\* ------------------------------------------------------------------- clock
\* Time passes in steps of one time-to-live: a job's age is below, at or
\* above JOB_TTL_SECONDS.
Tick ==
  /\ nticks < MaxTicks
  /\ clock' = clock + JOB_TTL_SECONDS
  /\ nticks' = nticks + 1
  /\ UNCHANGED <<analyzerVars, jobs, rec, nextId, args, workerVars, clientVars>>

\* what a status() in progress sees of a write to the registry
Observe(newRec) ==
  IF cpc \in {"s_status", "s_stage", "s_detail", "s_progress", "s_error"}
  THEN cseen \cup {Snap(newRec[cjob])}
  ELSE cseen

\* ------------------------------------------------------ POST /analyze route
\* mutant: the new job is registered as already crawling
InitialRecordCrawling(url, now) ==
  [status |-> "running", stage |-> "crawling", detail |-> MsgQueued,
   progress |-> 20, result |-> <<>>, error |-> <<>>, created_at |-> now,
   url |-> url]

\* the record analyze() stores for a new job
InitialRecord(url, now) ==
  [status |-> "running", stage |-> "queued", detail |-> MsgQueued,
   progress |-> 5, result |-> <<>>, error |-> <<>>, created_at |-> now,
   url |-> url]

\* data.get("url", "").strip() raises AttributeError on a JSON null
UrlRaises(body) == body.url.kind \notin {"missing", "str"}
UrlOf(body) == IF body.url.kind = "str" THEN Strip(body.url.str) ELSE <<>>

\* int(data.get("max_pages", cfg.DEFAULT_MAX_PAGES)) raises TypeError on a JSON
\* null and ValueError on a string that is no integer literal
MaxPagesRaises(body) ==
  \/ body.max_pages.kind = "null"
  \/ body.max_pages.kind = "str" /\ ~IntOk(body.max_pages.str)

RequestedPages(body) ==
  CASE body.max_pages.kind = "missing" -> DEFAULT_MAX_PAGES
    [] body.max_pages.kind = "int" -> body.max_pages.num
    [] OTHER -> IntVal(body.max_pages.str)

\* mutant: the lower limit of the page budget is dropped
ClampPagesUpperOnly(n) == Min(MAX_PAGES, n)

\* max(1, min(100, n))
ClampPages(n) == Max(MIN_PAGES, Min(MAX_PAGES, n))

\* if not url.startswith(("http://", "https://")): url = "https://" + url
WithScheme(url) == IF StartsWithScheme(url) THEN url ELSE <<HTTPS>> \o url

\* Lines 147-168: parse, validate, register.  An exception that escapes the
\* view is answered 500 by Flask.
Analyze(body) ==
  /\ cpc = "idle"
  /\ req' = body
  /\ IF UrlRaises(body) \/ MaxPagesRaises(body)
     THEN /\ resp' = [NoResp EXCEPT !.op = "analyze", !.code = 500,
                                    !.error = MsgInternal]
          /\ UNCHANGED <<jobs, rec, nextId, args, cpc, cjob>>
     ELSE IF UrlOf(body) = <<>>
     THEN /\ resp' = [NoResp EXCEPT !.op = "analyze", !.code = 400,
                                    !.error = MsgBadUrl]
          /\ UNCHANGED <<jobs, rec, nextId, args, cpc, cjob>>
     ELSE /\ nextId <= MaxJobs
          /\ jobs' = jobs \cup {nextId}
          /\ rec' = [rec EXCEPT ![nextId] =
                       InitialRecord(WithScheme(UrlOf(body)), clock)]
          /\ args' = [args EXCEPT ![nextId] =
                        [url |-> WithScheme(UrlOf(body)),
                         max_pages |-> ClampPages(RequestedPages(body))]]
          /\ nextId' = nextId + 1
          /\ cjob' = nextId
          /\ cpc' = "start"
          /\ resp' = NoResp
  /\ UNCHANGED <<analyzerVars, timeVars, workerVars, cref, cpay, cseen, cimm>>

\* Lines 170-179: thread.start() and the 202 response
AnalyzeStart ==
  /\ cpc = "start"
  /\ wpc' = [wpc EXCEPT ![cjob] = "ctor"]
  /\ resp' = [NoResp EXCEPT !.op = "analyze", !.code = 202, !.job = cjob]
  /\ cpc' = "idle"
  /\ cjob' = 0
  /\ UNCHANGED <<analyzerVars, timeVars, jobs, rec, nextId, args, wexc, wraised, wres, wnow,
                 ncb, cref, cpay, cseen, cimm, req>>

\* ------------------------------------------------------ _progress callback
\* _STAGE_PROGRESS.get(stage, 50)
StageProgress(stage) ==
  CASE stage = "queued" -> 5
    [] stage = "crawling" -> 20
    [] stage = "security" -> 40
    [] stage = "analysing" -> 60
    [] stage = "done" -> 100
    [] stage = "error" -> 100
    [] OTHER -> 50

\* str(e) of the exceptions the worker meets
MsgCtor == <<"WebsiteAnalyzer.__init__() got an unexpected keyword argument 'progress_callback'">>
MsgKey == <<"'job_id'">>
MsgJoin == <<"Invalid IPv6 URL">>

TypeErrorCtor == [type |-> "TypeError", msg |-> MsgCtor]
KeyErrorJob == [type |-> "KeyError", msg |-> MsgKey]
ValueErrorJoin == [type |-> "ValueError", msg |-> MsgJoin]

\* parts = detail.split("/"); current = int(parts[0].split()[-1]);
\* total = int(parts[1].split(":")[0]).  ParseOk is FALSE where one of these
\* raises ValueError or IndexError.
DetailParts(detail) == SplitOn(detail, "/")
CurrentTok(detail) ==
  LET w == SplitWs(DetailParts(detail)[1]) IN w[Len(w)]
TotalTok(detail) == SplitOn(DetailParts(detail)[2], ":")[1]

ParseOk(detail) ==
  /\ SplitWs(DetailParts(detail)[1]) # <<>>
  /\ IntOk(CurrentTok(detail))
  /\ Len(DetailParts(detail)) >= 2
  /\ IntOk(TotalTok(detail))

\* mutant: the ratio is scaled but the base of the range is not added
RefinedNoBase(base, span, detail) ==
  TruncDiv(span * IntVal(CurrentTok(detail)), IntVal(TotalTok(detail)))

\* progress = int(base + ratio * span) with ratio = current / total
Refined(base, span, detail) ==
  LET current == IntVal(CurrentTok(detail))
      total == IntVal(TotalTok(detail))
  IN  TruncDiv(base * total + span * current, total)

\* Lines 67-90: the percentage _progress computes
ProgressOf(stage, detail) ==
  IF stage = "analysing" /\ detail # <<>> /\ ParseOk(detail)
        /\ IntVal(TotalTok(detail)) > 0
  THEN Refined(40, 55, detail)
  ELSE IF stage = "crawling" /\ detail # <<>> /\ ParseOk(detail)
        /\ IntVal(TotalTok(detail)) > 0
  THEN Refined(10, 25, detail)
  ELSE StageProgress(stage)

\* Lines 92-98: _jobs[job_id].update(stage=, detail=, progress=)
ProgressUpdate(r, stage, detail) ==
  [r EXCEPT !.stage = stage, !.detail = detail,
            !.progress = ProgressOf(stage, detail)]

\* mutant: the completion write leaves the progress where the callback put it
DoneUpdateKeepProgress(r, results) ==
  [r EXCEPT !.status = "done", !.stage = "done", !.detail = MsgComplete,
            !.result = <<results>>]

\* Lines 107-113
DoneUpdate(r, results) ==
  [r EXCEPT !.status = "done", !.stage = "done", !.detail = MsgComplete,
            !.progress = 100, !.result = <<results>>]

\* Lines 120-126
ErrorUpdate(r, e) ==
  [r EXCEPT !.status = "error", !.stage = "error", !.detail = e.msg,
            !.progress = 100, !.error = MsgFailedPrefix \o e.msg]

\* ---------------------------------------------------- WebsiteAnalyzer
\* analyzer.py:12  def __init__(self, url, max_pages=50)
CtorParams == {"url", "max_pages"}
\* app.py:102-103  WebsiteAnalyzer(url, max_pages=..., progress_callback=...)
CallKeywords == {"max_pages", "progress_callback"}

\* every fetch of crawl_site fails (requests.get raises, line 38): the
\* except of line 67 discards each URL and pages stays empty
NeverResolves(url) == \E i \in 1..Len(url) : url[i] = DOWN

\* mutant: an empty crawl reported like a crawl of no page, without error
EmptyReportNoError(url) ==
  [url |-> url, pages_crawled |-> 0, crawled_urls |-> <<>>, error |-> <<>>]

\* analyze(), lines 75-85: the report of an empty crawl
EmptyReport(url) ==
  [url |-> url, pages_crawled |-> 0, crawled_urls |-> <<>>,
   error |-> MsgNoPages]

\* analyze(), lines 173-228: the report of a crawl of n pages (no error key)
SiteReport(url, n) ==
  [url |-> url, pages_crawled |-> n, crawled_urls |-> [i \in 1..n |-> url],
   error |-> <<>>]

\* ------------------------------------------------------ _cleanup_old_jobs
\* mutant: a job is stale as soon as its age reaches the time-to-live
StaleAtTtl(now) ==
  {k \in jobs : now - rec[k].created_at >= JOB_TTL_SECONDS}

\* mutant: only finished jobs are swept
StaleFinishedOnly(now) ==
  {k \in jobs : /\ now - rec[k].created_at > JOB_TTL_SECONDS
                /\ rec[k].status \in Terminal}

\* Lines 44-45
Stale(now) ==
  {k \in jobs : now - rec[k].created_at > JOB_TTL_SECONDS}

\* ------------------------------------------------------ _run_analysis
\* mutant: a write finds a record whether or not the key is in the registry
HasJobAlways(j) == TRUE

\* Lines 93, 107, 120: job_id in _jobs, and _jobs[job_id] not raising KeyError
HasJob(j) == j \in jobs

\* Lines 102-103: the constructor call.  A keyword the constructor does not
\* declare raises TypeError, which the except of line 116 catches.
WorkerConstruct(j) ==
  /\ wpc[j] = "ctor"
  /\ IF CallKeywords \subseteq CtorParams
     THEN /\ wpc' = [wpc EXCEPT ![j] = "analyze"]
          /\ UNCHANGED <<wexc, wraised>>
     ELSE /\ wpc' = [wpc EXCEPT ![j] = "except"]
          /\ wexc' = [wexc EXCEPT ![j] = <<TypeErrorCtor>>]
          /\ wraised' = [wraised EXCEPT ![j] = TRUE]
  /\ UNCHANGED <<analyzerVars, timeVars, jobs, rec, nextId, args, wres, wnow, ncb,
                 clientVars>>

\* Lines 116-126: the except clause.  _jobs[job_id] raises KeyError when the
\* key is gone; that exception leaves the handler and, after the finally
\* clause, the thread.
WorkerExcept(j) ==
  /\ wpc[j] = "except"
  /\ IF HasJob(j)
     THEN /\ rec' = [rec EXCEPT ![j] = ErrorUpdate(rec[j], wexc[j][1])]
          /\ wexc' = [wexc EXCEPT ![j] = <<>>]
     ELSE /\ wexc' = [wexc EXCEPT ![j] = <<KeyErrorJob>>]
          /\ UNCHANGED rec
  /\ wpc' = [wpc EXCEPT ![j] = "finally"]
  /\ cseen' = Observe(rec')
  /\ UNCHANGED <<analyzerVars, timeVars, jobs, nextId, args, wraised, wres, wnow, ncb,
                 cpc, cjob, cref, cpay, cimm, req, resp>>

\* Line 129 then line 42: finally calls _cleanup_old_jobs, which reads the
\* clock before it takes the lock
WorkerFinally(j) ==
  /\ wpc[j] = "finally"
  /\ wnow' = [wnow EXCEPT ![j] = clock]
  /\ wpc' = [wpc EXCEPT ![j] = "sweep"]
  /\ UNCHANGED <<analyzerVars, timeVars, jobs, rec, nextId, args, wexc, wraised, wres, ncb,
                 clientVars>>

\* Lines 43-47: the sweep under the lock; then the thread ends, normally or
\* with the exception still in flight
WorkerSweep(j) ==
  /\ wpc[j] = "sweep"
  /\ jobs' = jobs \ Stale(wnow[j])
  /\ wnow' = [wnow EXCEPT ![j] = 0]
  /\ wpc' = [wpc EXCEPT ![j] = IF wexc[j] = <<>> THEN "exit" ELSE "crashed"]
  /\ UNCHANGED <<analyzerVars, timeVars, rec, nextId, args, wexc, wraised, wres, ncb,
                 clientVars>>

\* The worker against an analyzer whose constructor takes progress_callback
\* (the analyzer app.py is written for): the task proper.
WorkerConstructCb(j) ==
  /\ wpc[j] = "ctor"
  /\ wpc' = [wpc EXCEPT ![j] = "analyze"]
  /\ UNCHANGED <<analyzerVars, timeVars, jobs, rec, nextId, args, wexc, wraised, wres, wnow,
                 ncb, clientVars>>

\* the (stage, detail) pairs the analyzer reports
CallbackCalls ==
  { <<"crawling", <<"Crawled", SP, "1", "/", "2", ":", SP, UP>> >>,
    <<"security", <<>> >>,
    <<"analysing", <<"Analysing", SP, "page", SP, "2", "/", "2", ":", SP, UP>> >> }

\* One call of _progress(stage, detail), lines 66-99.  detail or "" is the
\* empty string for None.
WorkerProgress(j) ==
  /\ wpc[j] = "analyze"
  /\ ncb[j] < MaxCallbacks
  /\ \E c \in CallbackCalls :
       rec' = IF HasJob(j)
              THEN [rec EXCEPT ![j] = ProgressUpdate(rec[j], c[1], c[2])]
              ELSE rec
  /\ ncb' = [ncb EXCEPT ![j] = ncb[j] + 1]
  /\ cseen' = Observe(rec')
  /\ UNCHANGED <<analyzerVars, timeVars, jobs, nextId, args, wpc, wexc, wraised, wres, wnow,
                 cpc, cjob, cref, cpay, cimm, req, resp>>

\* Line 104: analyzer.analyze() returns its report, or an exception leaves
\* it (urljoin in _check_broken_links_for_page, analyzer.py:253, is outside
\* every try)
WorkerAnalyze(j) ==
  /\ wpc[j] = "analyze"
  /\ \E outcome \in {"return", "raise"} :
       IF NeverResolves(args[j].url)
       THEN /\ outcome = "return"
            /\ wres' = [wres EXCEPT ![j] = <<EmptyReport(args[j].url)>>]
            /\ wpc' = [wpc EXCEPT ![j] = "store"]
            /\ UNCHANGED <<wexc, wraised>>
       ELSE IF outcome = "return"
       THEN /\ wres' = [wres EXCEPT ![j] = <<SiteReport(args[j].url, 1)>>]
            /\ wpc' = [wpc EXCEPT ![j] = "store"]
            /\ UNCHANGED <<wexc, wraised>>
       ELSE /\ wexc' = [wexc EXCEPT ![j] = <<ValueErrorJoin>>]
            /\ wraised' = [wraised EXCEPT ![j] = TRUE]
            /\ wpc' = [wpc EXCEPT ![j] = "except"]
            /\ UNCHANGED wres
  /\ UNCHANGED <<analyzerVars, timeVars, jobs, rec, nextId, args, wnow, ncb, clientVars>>

\* Lines 106-113: the completion write.  _jobs[job_id] raises KeyError when
\* the key is gone, and the except of line 116 catches it.
WorkerStore(j) ==
  /\ wpc[j] = "store"
  /\ IF HasJob(j)
     THEN /\ rec' = [rec EXCEPT ![j] = DoneUpdate(rec[j], wres[j][1])]
          /\ wpc' = [wpc EXCEPT ![j] = "finally"]
          /\ UNCHANGED <<wexc, wraised>>
     ELSE /\ wexc' = [wexc EXCEPT ![j] = <<KeyErrorJob>>]
          /\ wraised' = [wraised EXCEPT ![j] = TRUE]
          /\ wpc' = [wpc EXCEPT ![j] = "except"]
          /\ UNCHANGED rec
  /\ wres' = [wres EXCEPT ![j] = <<>>]
  /\ cseen' = Observe(rec')
  /\ UNCHANGED <<analyzerVars, timeVars, jobs, nextId, args, wnow, ncb,
                 cpc, cjob, cref, cpay, cimm, req, resp>>

\* ------------------------------------------------------ GET /status/<id>
\* Lines 188-192: the lookup under the lock
StatusGet(j) ==
  /\ cpc = "idle"
  /\ IF j \in jobs
     THEN /\ cpc' = "s_status"
          /\ cjob' = j
          /\ cref' = rec[j].status
          /\ cseen' = {Snap(rec[j])}
          /\ cimm' = (resp.op = "analyze" /\ resp.code = 202 /\ resp.job = j)
          /\ resp' = NoResp
     ELSE /\ resp' = [NoResp EXCEPT !.op = "status", !.code = 404,
                                    !.job = j, !.error = MsgNotFound]
          /\ UNCHANGED <<cpc, cjob, cref, cseen, cimm>>
  /\ UNCHANGED <<analyzerVars, timeVars, jobs, rec, nextId, args, workerVars, cpay, req>>

\* Lines 195-198: four reads of the dict, outside the lock
StatusRead ==
  /\ cpc \in {"s_status", "s_stage", "s_detail", "s_progress"}
  /\ cpay' = CASE cpc = "s_status" -> [cpay EXCEPT !.status = rec[cjob].status]
               [] cpc = "s_stage" -> [cpay EXCEPT !.stage = rec[cjob].stage]
               [] cpc = "s_detail" -> [cpay EXCEPT !.detail = rec[cjob].detail]
               [] OTHER -> [cpay EXCEPT !.progress = rec[cjob].progress]
  /\ cpc' = CASE cpc = "s_status" -> "s_stage"
              [] cpc = "s_stage" -> "s_detail"
              [] cpc = "s_detail" -> "s_progress"
              [] OTHER -> "s_error"
  /\ UNCHANGED <<analyzerVars, timeVars, jobs, rec, nextId, args, workerVars, cjob, cref,
                 cseen, cimm, req, resp>>

\* Lines 200-203: job.get("error") and the response
StatusFinish ==
  /\ cpc = "s_error"
  /\ resp' = [NoResp EXCEPT !.op = "status", !.code = 200, !.job = cjob,
                            !.imm = cimm, !.payload = cpay,
                            !.error = rec[cjob].error]
  /\ cpc' = "idle" /\ cjob' = 0 /\ cref' = "" /\ cpay' = NoPayload
  /\ cseen' = {} /\ cimm' = FALSE
  /\ UNCHANGED <<analyzerVars, timeVars, jobs, rec, nextId, args, workerVars, req>>

\* ------------------------------------------------------ GET /result/<id>
\* Lines 212-216: the lookup under the lock
ResultGet(j) ==
  /\ cpc = "idle"
  /\ IF j \in jobs
     THEN /\ cpc' = "r_status1"
          /\ cjob' = j
          /\ cref' = rec[j].status
          /\ resp' = NoResp
     ELSE /\ resp' = [NoResp EXCEPT !.op = "result", !.code = 404,
                                    !.job = j, !.error = MsgNotFound]
          /\ UNCHANGED <<cpc, cjob, cref>>
  /\ UNCHANGED <<analyzerVars, timeVars, jobs, rec, nextId, args, workerVars, cpay, cseen,
                 cimm, req>>

\* Lines 218 and 221: the two reads of job["status"], outside the lock
ResultStatus ==
  /\ cpc \in {"r_status1", "r_status2"}
  /\ cpc' = IF cpc = "r_status1"
            THEN (IF rec[cjob].status = "error" THEN "r_error"
                  ELSE "r_status2")
            ELSE (IF rec[cjob].status # "done" THEN "r_progress"
                  ELSE "r_result")
  /\ UNCHANGED <<analyzerVars, timeVars, jobs, rec, nextId, args, workerVars, cjob, cref,
                 cpay, cseen, cimm, req, resp>>

\* mutant: the report is returned whatever the status read
ResultResponseAlwaysReport(pc, r) ==
  [NoResp EXCEPT !.op = "result", !.code = 200, !.report = r.result]

\* the response result() builds at lines 219, 222 and 224
ResultResponse(pc, r) ==
  CASE pc = "r_error" ->
         [NoResp EXCEPT !.op = "result", !.code = 500, !.error = r.error]
    [] pc = "r_progress" ->
         [NoResp EXCEPT !.op = "result", !.code = 202,
                        !.progress = r.progress]
    [] OTHER ->
         [NoResp EXCEPT !.op = "result", !.code = 200, !.report = r.result]

ResultFinish ==
  /\ cpc \in {"r_error", "r_progress", "r_result"}
  /\ resp' = [ResultResponse(cpc, rec[cjob]) EXCEPT !.job = cjob]
  /\ cpc' = "idle" /\ cjob' = 0 /\ cref' = ""
  /\ UNCHANGED <<analyzerVars, timeVars, jobs, rec, nextId, args, workerVars, cpay, cseen,
                 cimm, req>>

\* ------------------------------------------------------------ specifications
\* Request bodies.  With the sources' analyzer the worker fails in the
\* constructor call, before the url is used: one body is enough there.
SourceBodies ==
  { [url |-> JStr(<<DOWN>>), max_pages |-> JInt(1)] }

LifecycleBodies ==
  { [url |-> JStr(<<HTTP, UP>>), max_pages |-> Missing],
    [url |-> JStr(<<DOWN>>), max_pages |-> JInt(1)] }

\* The service as the sources have it: the analyzer's constructor rejects
\* the progress_callback keyword.
Next ==
  \/ Tick
  \/ \E b \in SourceBodies : Analyze(b)
  \/ AnalyzeStart
  \/ \E j \in JobIds : WorkerConstruct(j)
  \/ \E j \in JobIds : WorkerExcept(j)
  \/ \E j \in JobIds : WorkerFinally(j)
  \/ \E j \in JobIds : WorkerSweep(j)
  \/ \E j \in JobIds : StatusGet(j)
  \/ StatusRead
  \/ StatusFinish
  \/ \E j \in JobIds : ResultGet(j)
  \/ ResultStatus
  \/ ResultFinish

Spec == Init /\ [][Next]_vars

\* The service with an analyzer that accepts the callback: submissions, the
\* workers and the result route.
NextCb ==
  \/ Tick
  \/ \E b \in LifecycleBodies : Analyze(b)
  \/ AnalyzeStart
  \/ \E j \in JobIds : WorkerConstructCb(j)
  \/ \E j \in JobIds : WorkerProgress(j)
  \/ \E j \in JobIds : WorkerAnalyze(j)
  \/ \E j \in JobIds : WorkerStore(j)
  \/ \E j \in JobIds : WorkerExcept(j)
  \/ \E j \in JobIds : WorkerFinally(j)
  \/ \E j \in JobIds : WorkerSweep(j)
  \/ \E j \in JobIds : ResultGet(j)
  \/ ResultStatus
  \/ ResultFinish

SpecCb == Init /\ [][NextCb]_vars

\* The submit route alone, over every shape of request body.
Urls ==
  { Missing, Null, JStr(<<>>), JStr(<<SP>>), JStr(<<SP, SP>>), JStr(<<UP>>),
    JStr(<<SP, HTTP, UP, SP>>), JStr(<<HTTPS, UP>>) }
PageCounts ==
  { Missing, Null, JInt(0), JInt(5), JInt(101), JStr(<<"7">>),
    JStr(<<"abc">>) }
SubmitBodies == [url : Urls, max_pages : PageCounts]

NextSubmit ==
  \/ \E b \in SubmitBodies : Analyze(b)
  \/ AnalyzeStart

SpecSubmit == Init /\ [][NextSubmit]_vars

\* The progress callback alone, over every stage and shape of detail.
DigitOf(n) ==
  CASE n = 0 -> "0" [] n = 1 -> "1" [] n = 2 -> "2" [] n = 3 -> "3"
    [] n = 4 -> "4" [] n = 5 -> "5" [] n = 6 -> "6" [] n = 7 -> "7"
    [] n = 8 -> "8" [] n = 9 -> "9"

\* str(n) for 0 <= n < 100
Decimal(n) ==
  IF n < 10 THEN <<DigitOf(n)>> ELSE <<DigitOf(n \div 10), DigitOf(n % 10)>>

\* f"{words} {n}/{m}: {url}", the detail lines 71 and 82 expect
CountDetail(words, n, m) ==
  words \o <<SP>> \o Decimal(n) \o <<"/">> \o Decimal(m) \o <<":", SP, UP>>

\* the page counts a detail may carry
Counts == 0..MaxCount \cup {20}

\* details from which lines 72-74 and 83-85 get no two integers: no "/", no
\* word before it, a word that is no number, nothing after it
BadDetails ==
  { <<"Crawled">>, <<"/", "3">>, <<"Crawled", SP, "x", "/", "3">>,
    <<"Crawled", SP, "1", "/">>, <<"Crawled", SP, "1", "/", ":", "3">> }

\* details whose first number carries a minus sign
NegativeDetails ==
  { <<"Crawled", SP, "-", "1", "/", "1", ":", SP, UP>>,
    <<"Crawled", SP, "-", "2", "/", "1", ":", SP, UP>> }

ProgressStages == {"crawling", "security", "analysing", "rendering"}
ProgressDetails ==
  {<<>>} \cup BadDetails \cup NegativeDetails
     \cup { CountDetail(<<"Crawled">>, n, m) : n \in Counts, m \in Counts }

\* One call of _progress(stage, detail), lines 66-99.
ProgressCallback(j) ==
  /\ wpc[j] = "analyze"
  /\ ncb[j] < MaxCallbacks
  /\ \E stage \in ProgressStages, detail \in ProgressDetails :
       rec' = IF HasJob(j)
              THEN [rec EXCEPT ![j] = ProgressUpdate(rec[j], stage, detail)]
              ELSE rec
  /\ ncb' = [ncb EXCEPT ![j] = ncb[j] + 1]
  /\ cseen' = Observe(rec')
  /\ UNCHANGED <<analyzerVars, timeVars, jobs, nextId, args, wpc, wexc,
                 wraised, wres, wnow, cpc, cjob, cref, cpay, cimm, req, resp>>

NextProgress ==
  \/ \E b \in LifecycleBodies : Analyze(b)
  \/ AnalyzeStart
  \/ \E j \in JobIds : WorkerConstructCb(j)
  \/ \E j \in JobIds : ProgressCallback(j)

SpecProgress == Init /\ [][NextProgress]_vars

\* ====================================================================
\* WebsiteAnalyzer.crawl_site (analyzer.py:22-70)
\* ====================================================================
\* A URL is the sequence: scheme chunk, host chunk, then the symbols of the
\* path ("/" and segment names) and of the fragment ("#" and its name).
\* Every URL the crawl handles has a host after its scheme, so rstrip('/')
\* never reaches the scheme chunk.
MaxBudget == 2        \* page budgets are 1..MaxBudget

SLASH == "/"
HASH == "#"
FTP == "ftp://"
MAILTO == "mailto:"
WWW == "www.example.com"    \* the host example.com may redirect to
ELSEWHERE == "other.org"    \* a host of another site
BADHOST == "["              \* a netloc on which urlsplit raises ValueError

\* urlparse(u).scheme
Scheme(u) ==
  IF u = <<>> THEN ""
  ELSE CASE Head(u) = HTTP -> "http"
         [] Head(u) = HTTPS -> "https"
         [] Head(u) = FTP -> "ftp"
         [] OTHER -> ""

\* urlparse(u).netloc
Netloc(u) ==
  IF Scheme(u) # "" /\ Len(u) >= 2 /\ u[2] \notin {SLASH, HASH} THEN u[2]
  ELSE ""

\* s.split('#')[0]
BeforeHash(s) == SplitOn(s, HASH)[1]

\* s.rstrip('/')
RECURSIVE RStripSlash(_)
RStripSlash(s) ==
  IF s # <<>> /\ s[Len(s)] = SLASH THEN RStripSlash(SubSeq(s, 1, Len(s) - 1))
  ELSE s

\* mutant: the trailing slashes are removed before the fragment is cut off
NormaliseSlashFirst(full_url) == BeforeHash(RStripSlash(full_url))

\* Line 55: full_url.split('#')[0].rstrip('/')
Normalise(full_url) == RStripSlash(BeforeHash(full_url))

\* scheme and netloc of an absolute URL
Origin(u) == SubSeq(u, 1, 2)

\* path of an absolute URL
PathOf(u) == SubSeq(BeforeHash(u), 3, Len(BeforeHash(u)))

\* the path up to and including its last "/"; "/" when the path is empty
RECURSIVE DirOf(_)
DirOf(p) ==
  IF p = <<>> THEN <<SLASH>>
  ELSE IF p[Len(p)] = SLASH THEN p
  ELSE DirOf(SubSeq(p, 1, Len(p) - 1))

\* urljoin(base, href) raises ValueError when the netloc of href is malformed
UrljoinRaises(href) ==
  \/ Scheme(href) # "" /\ Len(href) >= 2 /\ href[2] = BADHOST
  \/ Len(href) >= 3 /\ href[1] = SLASH /\ href[2] = SLASH /\ href[3] = BADHOST

\* urljoin(base, href) for an absolute base: an empty href gives the base, an
\* absolute href itself, "//host/..." the base's scheme, "/..." the base's
\* origin, anything else is resolved against the directory of the base.
Urljoin(base, href) ==
  IF href = <<>> THEN base
  ELSE IF Scheme(href) # "" THEN href
  ELSE IF Len(href) >= 2 /\ href[1] = SLASH /\ href[2] = SLASH
  THEN <<Head(base)>> \o SubSeq(href, 3, Len(href))
  ELSE IF Head(href) = SLASH THEN Origin(base) \o href
  ELSE Origin(base) \o DirOf(PathOf(base)) \o href

\* Line 51: href.startswith(('#', 'mailto:', 'tel:', 'javascript:', 'data:'))
Skipped(href) ==
  href # <<>> /\ Head(href) \in {HASH, MAILTO, "tel:", "javascript:", "data:"}

\* mutant: links to any host are followed
SameDomainAny(full_url, domain) == TRUE

\* Line 60: parsed.netloc != self.base_domain is the negation
SameDomain(full_url, domain) == Netloc(full_url) = domain

\* mutant: links of any scheme are followed
FollowedSchemeAny(full_url) == TRUE

\* Line 62: parsed.scheme not in ('http', 'https') is the negation
FollowedScheme(full_url) == Scheme(full_url) \in {"http", "https"}

\* mutant: every link in scope is taken for new
UnvisitedAlways(full_url, vis) == TRUE

\* Line 64: full_url not in visited
Unvisited(full_url, vis) == full_url \notin vis

\* Lines 48-66: the loop over the page's links, from the state (vis, q).  An
\* exception raised by urljoin leaves the loop (line 67) with what was
\* enqueued so far.
RECURSIVE Discover(_, _, _, _, _)
Discover(links, current_url, domain, vis, q) ==
  IF links = <<>> THEN [visited |-> vis, queue |-> q]
  ELSE LET href == Head(links)
           full_url == Normalise(Urljoin(current_url, href))
           rest == Tail(links)
       IN  IF Skipped(href)
           THEN Discover(rest, current_url, domain, vis, q)
           ELSE IF UrljoinRaises(href) THEN [visited |-> vis, queue |-> q]
           ELSE IF full_url = <<>>
           THEN Discover(rest, current_url, domain, vis, q)
           ELSE IF ~SameDomain(full_url, domain)
           THEN Discover(rest, current_url, domain, vis, q)
           ELSE IF ~FollowedScheme(full_url)
           THEN Discover(rest, current_url, domain, vis, q)
           ELSE IF Unvisited(full_url, vis)
           THEN Discover(rest, current_url, domain, vis \cup {full_url},
                         Append(q, full_url))
           ELSE Discover(rest, current_url, domain, vis, q)

\* content-type headers: HTML, a PDF, no header (read as '')
CtHtml == <<"text/html", ";", SP, "charset=utf-8">>
CtPdf == <<"application/pdf">>
CtNone == <<>>
ContentTypes == {CtHtml, CtPdf, CtNone}

\* mutant: every response is taken for HTML
IsHtmlAny(content_type) == TRUE

\* Line 41: 'text/html' in content_type
IsHtml(content_type) ==
  \E i \in 1..Len(content_type) : content_type[i] = "text/html"

\* resp.url: the requested URL, or the same URL on WWW after a redirect
FinalUrls(u) ==
  {u} \cup (IF Netloc(u) = UP THEN {[u EXCEPT ![2] = WWW]} ELSE {})

\* the href lists of the pages a server may answer with
PageLinks ==
  { <<>>,
    << <<SLASH, "a">>, <<SLASH, "a", SLASH>> >>,
    << <<SLASH>>, <<SLASH, "a", SLASH, HASH, "top">> >>,
    << <<HASH, "top">>, <<MAILTO, "x">>, <<HTTPS, ELSEWHERE, SLASH>> >>,
    << <<HTTPS, WWW, SLASH, "a">>, <<FTP, UP, SLASH, "a">> >>,
    << <<SLASH, SLASH, BADHOST>>, <<SLASH, "a">> >>,
    << <<"b">>, <<>> >> }

\* the urls an analyzer is constructed with
EntryUrls == { <<HTTPS, UP>>, <<HTTPS, UP, SLASH>>, <<HTTPS, DOWN>> }

\* Lines 12-20 and 31-33: the analyzer constructed for (url, max_pages) at
\* the first test of the while loop
InitCrawl ==
  /\ InitService
  /\ \E url \in EntryUrls, n \in 1..MaxBudget :
       /\ kpc = "loop"
       /\ self_url = url /\ self_max_pages = n
       /\ base_domain = Netloc(url)
       /\ visited_urls = {}
       /\ queue = <<url>> /\ visited = {url} /\ pages = <<>>
       /\ fetches = <<>>
  /\ NoProbe
  /\ NoAnalysis

serviceVars ==
  <<clock, nticks, jobs, rec, nextId, args, workerVars, clientVars>>

\* mutant: the loop goes on until the queue is empty
LoopContinuesWhileQueued == queue # <<>>

\* mutant: the loop stops one page late
LoopContinuesOneMore == queue # <<>> /\ Len(pages) <= self_max_pages

\* Line 35: while queue and len(pages) < self.max_pages
LoopContinues == queue # <<>> /\ Len(pages) < self_max_pages

\* mutant: an exception ends the crawl
ExceptReturns == "returned"

\* Lines 67-68: except Exception: continue
ExceptContinue == "loop"

\* Lines 36-38, 67-68: requests.get raises (network error, timeout)
CrawlFetchFail ==
  /\ kpc = "loop" /\ LoopContinues
  /\ queue' = Tail(queue)
  /\ fetches' = Append(fetches, [url |-> Head(queue), ok |-> FALSE,
                                 ctype |-> <<>>, final |-> <<>>])
  /\ kpc' = ExceptContinue
  /\ UNCHANGED <<serviceVars, probeVars, aggVars, self_url, self_max_pages, base_domain,
                 visited_urls, visited, pages>>

\* Lines 36-66: requests.get returns a response
CrawlFetchResponse ==
  /\ kpc = "loop" /\ LoopContinues
  /\ Netloc(Head(queue)) # DOWN
  /\ \E content_type \in ContentTypes, final \in FinalUrls(Head(queue)),
        links \in PageLinks :
       LET current_url == Head(queue)
           found == Discover(links, current_url, base_domain, visited,
                             Tail(queue))
       IN  /\ fetches' = Append(fetches, [url |-> current_url, ok |-> TRUE,
                                          ctype |-> content_type,
                                          final |-> final])
           /\ IF ~IsHtml(content_type)
              THEN /\ queue' = Tail(queue)
                   /\ UNCHANGED <<pages, visited_urls, visited>>
              ELSE /\ pages' = Append(pages, [url |-> current_url,
                                              links |-> links,
                                              final |-> final])
                   /\ visited_urls' = visited_urls \cup {current_url}
                   /\ visited' = found.visited
                   /\ queue' = found.queue
  /\ UNCHANGED <<serviceVars, probeVars, aggVars, kpc, self_url, self_max_pages, base_domain>>

\* Lines 35, 70: the while test fails, return pages
CrawlReturn ==
  /\ kpc = "loop" /\ ~LoopContinues
  /\ kpc' = "returned"
  /\ UNCHANGED <<serviceVars, probeVars, aggVars, self_url, self_max_pages, base_domain,
                 visited_urls, queue, visited, pages, fetches>>

NextCrawl ==
  \/ CrawlFetchFail
  \/ CrawlFetchResponse
  \/ CrawlReturn

\* One analyzer crawling one site, the server answering as it likes.
SpecCrawl == InitCrawl /\ [][NextCrawl]_vars

\* The loop is sequential code: it takes its next step as long as it has one.
SpecCrawlLive == SpecCrawl /\ WF_vars(NextCrawl)

\* ====================================================================
\* WebsiteAnalyzer._check_broken_links_for_page (analyzer.py:234-306)
\* ====================================================================
\* mutant: no status is taken for a false positive
false_positive_codes_none == {}

\* Line 245
false_positive_codes == {403, 405, 406, 429, 503}

\* r.reason of a status code
ReasonOf(code) ==
  CASE code = 200 -> <<"OK">>
    [] code = 399 -> <<>>
    [] code = 400 -> <<"Bad Request">>
    [] code = 403 -> <<"Forbidden">>
    [] code = 404 -> <<"Not Found">>
    [] code = 405 -> <<"Method Not Allowed">>
    [] code = 406 -> <<"Not Acceptable">>
    [] code = 429 -> <<"Too Many Requests">>
    [] code = 500 -> <<"Internal Server Error">>
    [] code = 503 -> <<"Service Unavailable">>
    [] OTHER -> <<>>

\* what a request ends with: a response, or an exception of the requests
\* library with its message
Answered(code) ==
  [kind |-> "status", code |-> code, type |-> "", msg |-> <<>>]
Raised(type, msg) ==
  [kind |-> "raise", code |-> 0, type |-> type, msg |-> msg]

\* the classes of requests.exceptions an exception type is an instance of
Bases(type) ==
  CASE type = "SSLError" -> {"SSLError", "ConnectionError", "RequestException"}
    [] type = "ConnectionError" -> {"ConnectionError", "RequestException"}
    [] type = "ConnectTimeout" ->
         {"ConnectTimeout", "ConnectionError", "Timeout", "RequestException"}
    [] type = "ReadTimeout" -> {"ReadTimeout", "Timeout", "RequestException"}
    [] type = "TooManyRedirects" -> {"TooManyRedirects", "RequestException"}
    [] OTHER -> {type, "RequestException"}

\* texts of exception messages; each stands for at most 40 characters
MsgRetries == "HTTPSConnectionPool: Max retries exceeded "
MsgDnsLinux == "[Errno -2] Name or service not known"
MsgDnsMac == "[Errno 8] nodename nor servname provided"
MsgDnsTemp == "[Errno -3] Temporary failure in name resolution"
MsgRefused == "[Errno 111] Connection refused"
MsgReset == "Connection aborted"
MsgCert == "certificate verify failed"
MsgSchema == "No connection adapters were found"

\* str.lower() of one message text
LowerSym(c) ==
  CASE c = MsgRetries -> "httpsconnectionpool: max retries exceeded "
    [] c = MsgDnsLinux -> "[errno -2] name or service not known"
    [] c = MsgDnsMac -> "[errno 8] nodename nor servname provided"
    [] c = MsgDnsTemp -> "[errno -3] temporary failure in name resolution"
    [] c = MsgRefused -> "[errno 111] connection refused"
    [] c = MsgReset -> "connection aborted"
    [] c = MsgCert -> "certificate verify failed"
    [] c = MsgSchema -> "no connection adapters were found"
    [] OTHER -> c

\* str(e).lower()
Lower(msg) == [i \in 1..Len(msg) |-> LowerSym(msg[i])]

\* 'name or service not known' in text
HasNameNotKnown(c) == c = "[errno -2] name or service not known"
\* 'nodename nor servname' in text
HasNodename(c) == c = "[errno 8] nodename nor servname provided"
\* 'connection refused' in text
HasRefused(c) == c = "[errno 111] connection refused"

\* mutant: only the first of the two resolver messages is recognised
IsDnsFailureFirstOnly(err) == \E i \in 1..Len(err) : HasNameNotKnown(err[i])

\* Line 283
IsDnsFailure(err) ==
  \E i \in 1..Len(err) : HasNameNotKnown(err[i]) \/ HasNodename(err[i])

\* Line 285
IsRefused(err) == \E i \in 1..Len(err) : HasRefused(err[i])

\* str(e)[:80]: the first two texts of a message
First80(msg) == SubSeq(msg, 1, Min(2, Len(msg)))

\* mutant: every error status is tried again
NeedsRetryAnyError(code) == code >= 400

\* Lines 267-268
NeedsRetry(code) == code >= 400 /\ code \in false_positive_codes

Verdict(is_broken, status_code, reason, retry) ==
  [is_broken |-> is_broken, status_code |-> status_code, reason |-> reason,
   retry |-> retry]

\* Lines 264-268 and 277-294: the HEAD request and its except clauses, in
\* the order they are written
AfterHead(ans) ==
  IF ans.kind = "status"
  THEN Verdict(ans.code >= 400 /\ ~NeedsRetry(ans.code), JInt(ans.code),
               ReasonOf(ans.code), NeedsRetry(ans.code))
  ELSE IF "SSLError" \in Bases(ans.type)
  THEN Verdict(TRUE, JStr(<<"SSL Error">>), First80(ans.msg), FALSE)
  ELSE IF "ConnectionError" \in Bases(ans.type)
  THEN (IF IsDnsFailure(Lower(ans.msg))
        THEN Verdict(TRUE, JStr(<<"DNS Error">>), <<"Domain not found">>, FALSE)
        ELSE IF IsRefused(Lower(ans.msg))
        THEN Verdict(TRUE, JStr(<<"Refused">>), <<"Connection refused">>, FALSE)
        ELSE Verdict(TRUE, JStr(<<"N/A">>), First80(ans.msg), FALSE))
  ELSE IF "Timeout" \in Bases(ans.type)
  THEN Verdict(TRUE, JStr(<<"Timeout">>), <<"Request timed out">>, FALSE)
  ELSE IF "TooManyRedirects" \in Bases(ans.type)
  THEN Verdict(TRUE, JStr(<<"Redirect Loop">>), <<"Too many redirects">>, FALSE)
  ELSE Verdict(TRUE, JStr(<<"Error">>), First80(ans.msg), FALSE)

\* mutant: a GET that raises is classified like a HEAD that raises
AfterGetClassified(head, ans) ==
  IF ans.kind = "status"
  THEN Verdict(ans.code >= 400 /\ ans.code \notin false_positive_codes,
               JInt(ans.code), ReasonOf(ans.code), FALSE)
  ELSE AfterHead(ans)

\* Lines 269-276: the GET retry; its bare except keeps what the HEAD left
AfterGet(head, ans) ==
  IF ans.kind = "status"
  THEN Verdict(ans.code >= 400 /\ ans.code \notin false_positive_codes,
               JInt(ans.code), ReasonOf(ans.code), FALSE)
  ELSE Verdict(TRUE, head.status_code, head.reason, FALSE)

\* Lines 260-294: one link, with the answers its requests get
ProbeLink(link, head, get) ==
  LET h == AfterHead(head)
      v == IF h.retry THEN AfterGet(h, get) ELSE h
  IN  [is_broken |-> v.is_broken, status_code |-> v.status_code,
       reason |-> v.reason,
       requests |->
         <<[method |-> "HEAD", url |-> link, ans |-> head]>> \o
         (IF h.retry THEN <<[method |-> "GET", url |-> link, ans |-> get]>>
          ELSE <<>>)]

\* mutant: working links are not kept
RecordBrokenOnly(lists, v, link, on_page) ==
  [lists EXCEPT !.broken =
     IF v.is_broken
     THEN Append(lists.broken, [url |-> link, status_code |-> v.status_code,
                             reason |-> v.reason, found_on |-> on_page])
     ELSE lists.broken]

\* Lines 296-299
Record(lists, v, link, on_page) ==
  IF v.is_broken
  THEN [lists EXCEPT !.broken =
          Append(lists.broken, [url |-> link, status_code |-> v.status_code,
                             reason |-> v.reason, found_on |-> on_page])]
  ELSE [lists EXCEPT !.working = Append(lists.working, link)]

\* Line 251
SkippedLink(url) ==
  url # <<>> /\ Head(url) \in {"javascript:", MAILTO, "tel:", HASH, "data:"}

\* Lines 247-255: the candidate links of a page, from the href/src values
\* of its tags; empty values and skipped prefixes are left out, the rest is
\* resolved and kept when it starts with http:// or https://
Candidates(on_page, hrefs) ==
  { Urljoin(on_page, hrefs[i]) :
      i \in { k \in DOMAIN hrefs :
                /\ hrefs[k] # <<>> /\ ~SkippedLink(hrefs[k])
                /\ StartsWithScheme(Urljoin(on_page, hrefs[k])) } }

\* urljoin raises on one of the values that are resolved (line 253)
CandidatesRaise(hrefs) ==
  \E k \in DOMAIN hrefs :
    hrefs[k] # <<>> /\ ~SkippedLink(hrefs[k]) /\ UrljoinRaises(hrefs[k])

\* list(links): the orders a set may be iterated in
Orders(S) ==
  { s \in [1..Cardinality(S) -> S] : \A i, j \in DOMAIN s : i # j => s[i] # s[j] }

\* answers of the servers to a HEAD and to a GET
HeadAnswers ==
  { Answered(c) : c \in {200, 399, 400, 403, 404, 405, 406, 429, 500, 503} }
    \cup
  { Raised("SSLError", <<MsgRetries, MsgCert>>),
    Raised("ConnectionError", <<MsgRetries, MsgDnsLinux>>),
    Raised("ConnectionError", <<MsgRetries, MsgDnsMac>>),
    Raised("ConnectionError", <<MsgRetries, MsgDnsTemp>>),
    Raised("ConnectionError", <<MsgRetries, MsgRefused>>),
    Raised("ConnectionError", <<MsgReset>>),
    Raised("ConnectTimeout", <<MsgRetries>>),
    Raised("ReadTimeout", <<MsgRetries>>),
    Raised("TooManyRedirects", <<>>),
    Raised("InvalidSchema", <<MsgSchema>>) }

GetAnswers ==
  { Answered(200), Answered(403), Answered(404), Answered(500),
    Raised("ReadTimeout", <<MsgRetries>>),
    Raised("ConnectionError", <<MsgRetries, MsgDnsLinux>>) }

\* Lines 236-257: the check entered for a fetched page, its candidate links
\* listed
InitProbe ==
  /\ InitService /\ NoCrawl /\ NoAnalysis
  /\ \E page \in {<<HTTPS, UP>>, <<HTTPS, UP, SLASH, "a">>},
        hrefs \in {h \in PageLinks : ~CandidatesRaise(h)} :
       /\ on_page_url = page
       /\ bl_links \in Orders(Candidates(page, hrefs))
  /\ ppc = "loop" /\ bl_next = 1 /\ bl = NoBl /\ httplog = <<>>

\* Lines 259-299: one iteration of the loop over the links
CheckLink ==
  /\ ppc = "loop" /\ bl_next <= Len(bl_links)
  /\ \E head \in HeadAnswers, get \in GetAnswers :
       LET link == bl_links[bl_next]
           v == ProbeLink(link, head, get)
       IN  /\ bl' = Record(bl, v, link, on_page_url)
           /\ httplog' = httplog \o v.requests
  /\ bl_next' = bl_next + 1
  /\ UNCHANGED <<serviceVars, crawlVars, aggVars, ppc, on_page_url, bl_links>>

\* Lines 301-306
CheckLinksReturn ==
  /\ ppc = "loop" /\ bl_next > Len(bl_links)
  /\ ppc' = "returned"
  /\ UNCHANGED <<serviceVars, crawlVars, aggVars, on_page_url, bl_links, bl_next, bl,
                 httplog>>

NextProbe ==
  \/ CheckLink
  \/ CheckLinksReturn

\* The link check of one page, the probed servers answering as they like.
SpecProbe == InitProbe /\ [][NextProbe]_vars

\* ====================================================================
\* WebsiteAnalyzer.analyze (analyzer.py:72-228)
\* ====================================================================
\* description texts are sequences of characters
Pad(n) == [i \in 1..n |-> "x"]

Issue(name, description, severity) ==
  [issue |-> name, description |-> description, severity |-> severity]

\* issues a checker may report: a fixed name, and a description that is fixed
\* or, for a failed check, the text of the exception
IssFailed1 == Issue(<<"Check", "Failed">>, Pad(60) \o <<"1">>, "")
IssFailed2 == Issue(<<"Check", "Failed">>, Pad(60) \o <<"2">>, "")
IssFailed3 == Issue(<<"Check", "Failed">>, Pad(59) \o <<"3">>, "")
IssNoCompression == Issue(<<"No", "Compression">>, <<"gzip">>, "")
IssNoCaching == Issue(<<"No", "Caching", "Headers">>, <<"add">>, "")
IssDoctype == Issue(<<"Missing", "DOCTYPE">>, <<"d">>, "high")

\* the score a checker computes from the issues it found
PenaltyOf(i) ==
  CASE i.severity = "high" -> 20
    [] i.severity = "medium" -> 10
    [] i.severity = "low" -> 5
    [] OTHER -> 0

RECURSIVE Penalty(_)
Penalty(issues) ==
  IF issues = <<>> THEN 0 ELSE PenaltyOf(Head(issues)) + Penalty(Tail(issues))

CheckerScore(cat, issues) ==
  CASE cat = "rendering" -> Max(0, 100 - Penalty(issues))
    [] cat = "seo" -> Max(0, 100 - Len(issues) * 10)
    [] cat = "accessibility" -> Max(0, 100 - Len(issues) * 12)
    [] OTHER -> Max(0, 100 - Len(issues) * 15)

CleanOutput == [c \in Categories |-> [issues |-> <<>>, good |-> <<"ok">>]]

\* what the checkers find on a page and how the servers of its links answer
Observations ==
  { [net |-> "up", out |-> CleanOutput],
    [net |-> "a_gone",
     out |-> [CleanOutput EXCEPT
                !["seo"] = [issues |-> <<IssFailed1, IssFailed3>>, good |-> <<>>],
                !["performance"] = [issues |-> <<IssNoCompression>>, good |-> <<"ok">>],
                !["accessibility"] = [issues |-> <<IssFailed1>>, good |-> <<"alt">>],
                !["security"] = [issues |-> <<IssFailed1>>, good |-> <<>>],
                !["rendering"] = [issues |-> <<IssDoctype>>, good |-> <<>>]]],
    [net |-> "blocked",
     out |-> [CleanOutput EXCEPT
                !["seo"] = [issues |-> <<IssFailed2>>, good |-> <<"ok", "og">>],
                !["performance"] = [issues |-> <<IssNoCaching>>, good |-> <<>>],
                !["mobile"] = [issues |-> <<IssFailed1>>, good |-> <<>>]]] }

\* the answers a link's requests get on a given net
NetAnswer(net, url) ==
  CASE net = "up" -> [head |-> Answered(200), get |-> Answered(200)]
    [] net = "a_gone" ->
         IF \E i \in 1..Len(url) : url[i] = "a"
         THEN [head |-> Answered(404), get |-> Answered(404)]
         ELSE [head |-> Answered(200), get |-> Answered(200)]
    [] OTHER ->
         IF Netloc(url) \in {ELSEWHERE, WWW}
         THEN [head |-> Raised("ConnectionError", <<MsgRetries, MsgDnsLinux>>),
               get |-> Answered(200)]
         ELSE [head |-> Answered(403), get |-> Answered(404)]

\* Lines 259-306 for the listed links: the lists and the requests made
RECURSIVE CheckLinks(_, _, _, _, _)
CheckLinks(list, net, on_page, lists, log) ==
  IF list = <<>> THEN [lists |-> lists, log |-> log]
  ELSE LET link == Head(list)
           v == ProbeLink(link, NetAnswer(net, link).head,
                          NetAnswer(net, link).get)
       IN  CheckLinks(Tail(list), net, on_page,
                      Record(lists, v, link, on_page), log \o v.requests)

\* mutant: every broken item of every page is kept
MergeBrokenAll(agg_broken, seen, items) ==
  [agg_broken |-> agg_broken \o items,
   seen |-> seen \cup {items[i].url : i \in DOMAIN items}]

\* Lines 114-117
RECURSIVE MergeBroken(_, _, _)
MergeBroken(agg_broken, seen, items) ==
  IF items = <<>> THEN [agg_broken |-> agg_broken, seen |-> seen]
  ELSE IF Head(items).url \notin seen
  THEN MergeBroken(Append(agg_broken, Head(items)),
                   seen \cup {Head(items).url}, Tail(items))
  ELSE MergeBroken(agg_broken, seen, Tail(items))

\* description[:60]
Prefix60(description) == SubSeq(description, 1, Min(60, Len(description)))

\* mutant: the key is the issue name alone
IssueKeyNameOnly(i) == i.issue

\* Line 173
IssueKey(i) == i.issue \o Prefix60(i.description)

\* Lines 170-177
RECURSIVE DedupWalk(_, _, _)
DedupWalk(issues, seen, out) ==
  IF issues = <<>> THEN out
  ELSE IF IssueKey(Head(issues)) \notin seen
  THEN DedupWalk(Tail(issues), seen \cup {IssueKey(Head(issues))},
                 Append(out, Head(issues)))
  ELSE DedupWalk(Tail(issues), seen, out)

dedup_issues(issues) == DedupWalk(issues, {}, <<>>)

\* list(dict.fromkeys(lst))
RECURSIVE FromKeys(_, _)
FromKeys(lst, out) ==
  IF lst = <<>> THEN out
  ELSE IF \E i \in DOMAIN out : out[i] = Head(lst)
  THEN FromKeys(Tail(lst), out)
  ELSE FromKeys(Tail(lst), Append(out, Head(lst)))

RECURSIVE Sum(_)
Sum(lst) == IF lst = <<>> THEN 0 ELSE Head(lst) + Sum(Tail(lst))

\* round(s / n) of Python 3 for s >= 0, n > 0: to the nearest integer, a tie
\* to the even one
Round(s, n) ==
  LET q == s \div n
      r == s % n
  IN  IF 2 * r < n THEN q
      ELSE IF 2 * r > n THEN q + 1
      ELSE IF q % 2 = 0 THEN q ELSE q + 1

\* Line 169
avg(lst) == IF lst # <<>> THEN Round(Sum(lst), Len(lst)) ELSE 0

\* the checkers run on a page: all of them, security on the entry url only
PageCategories(on_page) ==
  IF on_page = self_url THEN Categories ELSE Categories \ {"security"}

\* Lines 106-152, 160-167: the accumulators after a page, given what its
\* checkers and its link check returned
AfterPage(a, on_page, out, lists) ==
  LET merged == MergeBroken(a.agg_broken, a.seen_broken_urls, lists.broken)
      run == PageCategories(on_page)
      score(c) == CheckerScore(c, out[c].issues)
  IN  [issues |-> [c \in Categories |->
                     IF c \in run THEN a.issues[c] \o out[c].issues
                     ELSE a.issues[c]],
       good |-> [c \in Categories |->
                   IF c \in run THEN a.good[c] \o out[c].good ELSE a.good[c]],
       scores |-> [c \in Categories |->
                     IF c \in run THEN Append(a.scores[c], score(c))
                     ELSE a.scores[c]],
       agg_broken |-> merged.agg_broken,
       seen_broken_urls |-> merged.seen,
       agg_working_count |-> a.agg_working_count + Len(lists.working),
       per_page_summary |->
         Append(a.per_page_summary,
                [url |-> on_page, seo_score |-> score("seo"),
                 perf_score |-> score("performance"),
                 acc_score |-> score("accessibility"),
                 mob_score |-> score("mobile"),
                 broken_count |-> Len(lists.broken)])]

\* mutant: the crawled urls are listed last page first
CrawledUrlsReversed(ps) ==
  [i \in 1..Len(ps) |-> ps[Len(ps) + 1 - i].url]

\* Line 183: [p[0] for p in pages]
CrawledUrls(ps) == [i \in 1..Len(ps) |-> ps[i].url]

\* Lines 179-227
Results(a) ==
  [url |-> self_url,
   pages_crawled |-> Len(pages),
   crawled_urls |-> CrawledUrls(pages),
   per_page_summary |-> a.per_page_summary,
   sections |->
     [c \in Categories |->
        [issues |-> dedup_issues(a.issues[c]),
         good |-> FromKeys(a.good[c], <<>>),
         score |-> IF c = "security" /\ a.scores[c] = <<>>
                   THEN Max(0, 100 - Len(a.issues[c]) * 15)
                   ELSE avg(a.scores[c])]],
   broken_links |->
     [broken |-> a.agg_broken,
      total_checked |-> Len(a.agg_broken) + a.agg_working_count,
      broken_count |-> Len(a.agg_broken),
      working_count |-> a.agg_working_count],
   error |-> <<>>]

\* the checker calls of one page, in the order of lines 106-157
CallsOf(on_page, broken) ==
  LET call(fn) == [fn |-> fn, url |-> on_page, broken |-> <<>>]
  IN  (IF on_page = self_url THEN <<call("check_security")>> ELSE <<>>)
      \o <<[fn |-> "_check_broken_links_for_page", url |-> on_page,
            broken |-> broken]>>
      \o <<call("_check_performance_for_page"),
           call("_check_rendering_for_page"), call("_check_seo_for_page"),
           call("_check_accessibility_for_page"),
           call("_check_mobile_for_page")>>
      \o (IF on_page = self_url
          THEN <<call("_suggest_improvements_for_page")>> ELSE <<>>)

\* Lines 75-85: the crawl returned no page
AnalyzeEmpty ==
  /\ kpc = "returned" /\ apc = "none" /\ pages = <<>>
  /\ report' = <<EmptyReport(self_url)>>
  /\ apc' = "returned"
  /\ UNCHANGED <<serviceVars, crawlVars, probeVars, anext, agg, calls>>

\* Lines 104-167: one iteration of the loop over the pages.  urljoin raising
\* in the link check (line 253) leaves analyze() with the exception.
AnalyzePage ==
  /\ kpc = "returned" /\ apc \in {"none", "pages"} /\ anext <= Len(pages)
  /\ LET page == pages[anext]
     IN  IF CandidatesRaise(page.links)
         THEN /\ apc' = "raised"
              /\ calls' = calls \o
                   SubSeq(CallsOf(page.url, <<>>), 1,
                          IF page.url = self_url THEN 2 ELSE 1)
              /\ UNCHANGED <<anext, agg, httplog>>
         ELSE \E obs \in Observations,
                 list \in Orders(Candidates(page.url, page.links)) :
                LET checked == CheckLinks(list, obs.net, page.url, NoBl, <<>>)
                IN  /\ agg' = AfterPage(agg, page.url, obs.out, checked.lists)
                    /\ httplog' = httplog \o checked.log
                    /\ calls' = calls \o
                         CallsOf(page.url, checked.lists.broken)
                    /\ anext' = anext + 1
                    /\ apc' = "pages"
  /\ UNCHANGED <<serviceVars, crawlVars, ppc, on_page_url, bl_links, bl_next,
                 bl, report>>

\* Lines 169-228: the loop is over, the report is built and returned
AnalyzeReturn ==
  /\ kpc = "returned" /\ apc = "pages" /\ anext > Len(pages)
  /\ report' = <<Results(agg)>>
  /\ apc' = "returned"
  /\ UNCHANGED <<serviceVars, crawlVars, probeVars, anext, agg, calls>>

NextAnalyze ==
  \/ CrawlFetchFail
  \/ CrawlFetchResponse
  \/ CrawlReturn
  \/ AnalyzeEmpty
  \/ AnalyzePage
  \/ AnalyzeReturn

\* One analyzer running analyze(): the crawl, the pages, the report.
SpecAnalyze == InitCrawl /\ [][NextAnalyze]_vars

\* ====================================================================
\* Properties
\* ====================================================================
Finished(j) == wpc[j] \in {"exit", "crashed"}
Age(j) == clock - rec[j].created_at

\* C1: every job's status goes from running to done or error exactly once:
\* a terminal status never changes again, and a worker that has finished
\* has made the transition.
C1_TerminalExactlyOnce ==
  [][\A j \in JobIds :
       /\ rec[j].status \in Terminal => rec'[j].status = rec[j].status
       /\ Finished(j)' => rec'[j].status \in Terminal]_vars

\* the part of C1 that holds: a terminal status is final
C1_TerminalIsFinal ==
  [][\A j \in JobIds :
       rec[j].status \in Terminal => rec'[j].status = rec[j].status]_vars

\* C2: a job for a URL whose every fetch fails never gets status error, and
\* ends done with a report that has pages_crawled = 0 and a non-empty error.
C2_UnreachableSiteEndsDone ==
  \A j \in JobIds :
    NeverResolves(args[j].url) =>
      /\ rec[j].status # "error"
      /\ rec[j].status \in Terminal =>
           /\ rec[j].status = "done"
           /\ rec[j].result # <<>>
           /\ rec[j].result[1].pages_crawled = 0
           /\ rec[j].result[1].error # <<>>

PastErrorWrite(j) == wpc[j] \in {"finally", "sweep", "exit", "crashed"}

ResultLookup(j) == cpc = "idle" /\ cpc' = "r_status1" /\ cjob' = j
ResultMiss(j) ==
  cpc = "idle" /\ resp'.op = "result" /\ resp'.code = 404 /\ resp'.job = j
ResultSent == cpc \in {"r_error", "r_progress", "r_result"} /\ cpc' = "idle"
ResultIssued(j) == ResultLookup(j) \/ ResultMiss(j)

C6_ExceptionsCaughtAtWorker ==
  \A j \in JobIds :
    /\ wpc[j] # "crashed"
    /\ (wraised[j] /\ wpc[j] \in {"finally", "sweep", "exit"}) =>
         (rec[j].status = "error" /\ rec[j].error # <<>>)

\* C7: the four fields a status request returns are the record's fields at
\* one instant between the lookup and the response.
C7_StatusIsSnapshot ==
  cpc = "s_error" => cpay \in cseen

C9_WorkerTouchesOwnRecordOnly ==
  [][\A J, K \in JobIds :
       (J # K /\ wpc[J] # "none" /\ wpc'[J] # wpc[J]
          /\ K \in jobs /\ rec[K].status = "running") =>
         (K \in jobs' /\ rec'[K] = rec[K])]_vars

\* a url that is missing, empty or only whitespace
BlankUrl(body) ==
  \/ body.url.kind = "missing"
  \/ /\ body.url.kind = "str"
     /\ \A i \in 1..Len(body.url.str) : body.url.str[i] = SP

\* C10: a submit with a missing, empty or blank url is answered 400 whatever
\* max_pages is, and registers no job and starts no worker.
C10_BlankUrlRejected ==
  [][\A b \in SubmitBodies :
       (Analyze(b) /\ BlankUrl(b)) =>
         /\ resp'.op = "analyze" /\ resp'.code = 400
         /\ jobs' = jobs /\ rec' = rec /\ nextId' = nextId
         /\ wpc' = wpc /\ cpc' = "idle"]_vars

\* C11: on every accepted submit the page budget handed to the worker is the
\* requested max_pages (the configured default when the key is absent)
\* brought into 1..100, and the url handed to the worker starts with http://
\* or https://: it is the submitted url, trimmed, with https:// put in front
\* exactly when it has neither prefix.
C11_WorkerArguments ==
  [][\A b \in SubmitBodies :
       (Analyze(b) /\ cpc' = "start") =>
         LET a == args'[nextId]
             n == RequestedPages(b)
             u == Strip(b.url.str)
         IN  /\ a.max_pages \in 1..100
             /\ (n \in 1..100 => a.max_pages = n)
             /\ (n < 1 => a.max_pages = 1)
             /\ (n > 100 => a.max_pages = 100)
             /\ Head(a.url) \in {HTTP, HTTPS}
             /\ IF Head(u) \in {HTTP, HTTPS} THEN a.url = u
                ELSE a.url = <<HTTPS>> \o u]_vars

\* a worker was started with a budget cut down to 100 and a url that got the
\* default scheme, another with a budget raised to 1 and its url unchanged
C11_Witness ==
  \E j, k \in JobIds :
    /\ wpc[j] = "ctor" /\ wpc[k] = "ctor"
    /\ args[j] = [url |-> <<HTTPS, UP>>, max_pages |-> 100]
    /\ args[k] = [url |-> <<HTTP, UP>>, max_pages |-> 1]
    /\ req = [url |-> JStr(<<SP, HTTP, UP, SP>>), max_pages |-> JInt(0)]

\* C12: at every point of the crawl loop and in the list it returns, the
\* number of fetched HTML pages is at most the page budget.
C12_PagesWithinBudget ==
  kpc # "none" => Len(pages) <= self_max_pages

\* the crawl returned with a full budget and urls still queued
C12_Witness ==
  /\ kpc = "returned"
  /\ Len(pages) = self_max_pages
  /\ queue # <<>>

\* C13: no two fetches of one crawl target urls that are the same up to
\* fragment and trailing slash; the entry url is not fetched again through
\* a link to it.
C13_NoKeyFetchedTwice ==
  \A i, j \in DOMAIN fetches :
    i # j => Normalise(fetches[i].url) # Normalise(fetches[j].url)

\* urls of the pages list
RECURSIVE PageUrls(_)
PageUrls(ps) ==
  IF ps = <<>> THEN <<>> ELSE <<Head(ps).url>> \o PageUrls(Tail(ps))

\* urls of the fetches answered with a text/html response
RECURSIVE HtmlUrls(_)
HtmlUrls(fs) ==
  IF fs = <<>> THEN <<>>
  ELSE (IF Head(fs).ok /\ Head(fs).ctype = CtHtml THEN <<Head(fs).url>>
        ELSE <<>>) \o HtmlUrls(Tail(fs))

\* the step is a fetch that failed
FetchFailed == Len(fetches') = Len(fetches) + 1 /\ ~fetches'[Len(fetches')].ok

\* C14: a fetch that fails discards the dequeued url and nothing else, the
\* loop goes on with the rest of the queue; the pages list is, in order, the
\* dequeued urls whose fetch was answered with HTML.
C14_FailureDiscardsOneUrl ==
  [][/\ FetchFailed =>
          /\ kpc' = "loop"
          /\ queue' = Tail(queue)
          /\ pages' = pages /\ visited' = visited
     /\ PageUrls(pages') = HtmlUrls(fetches')]_vars

\* a page was fetched after an earlier fetch had failed
C14_Witness ==
  \E i, j \in DOMAIN fetches :
    /\ i < j /\ ~fetches[i].ok
    /\ fetches[j].ok /\ fetches[j].ctype = CtHtml
    /\ pages # <<>> /\ pages[Len(pages)].url = fetches[j].url

\* C15: the crawl loop returns, and when it has returned the queue is empty
\* or the number of pages equals the budget.
C15_CrawlTerminates ==
  <>(/\ kpc = "returned"
     /\ (queue = <<>> \/ Len(pages) = self_max_pages))

\* the crawl returned after a failed fetch, its queue empty, budget unused
C15_Witness ==
  /\ kpc = "returned" /\ queue = <<>> /\ Len(pages) < self_max_pages
  /\ \E i \in DOMAIN fetches : ~fetches[i].ok

\* the step is a fetch, answered or not
FetchStep == Len(fetches') = Len(fetches) + 1

\* C16: every url link discovery enqueues has scheme http or https, has the
\* host the crawl allows when it is enqueued, and was not in the visited set
\* (nor enqueued earlier in the same step); no other link is enqueued.
C16_EnqueuedLinksInScope ==
  [][FetchStep =>
       \A k \in Len(queue)..Len(queue') :
         LET u == queue'[k]
         IN  /\ Scheme(u) \in {"http", "https"}
             /\ Netloc(u) \in {base_domain}
             /\ u \notin visited
             /\ \A m \in Len(queue)..Len(queue') : m # k => queue'[m] # u]_vars

\* a page linking to another host and to an ftp url was fetched and neither
\* link was followed, while a link to a page of the site was
C16_Witness ==
  /\ \E i \in DOMAIN pages :
       pages[i].links = << <<HTTPS, WWW, SLASH, "a">>, <<FTP, UP, SLASH, "a">> >>
  /\ <<FTP, UP, SLASH, "a">> \notin visited
  /\ <<HTTPS, WWW, SLASH, "a">> \notin visited
  /\ <<HTTPS, UP, SLASH, "a">> \in visited

\* C17: when the first page is fetched through a redirect to another host,
\* the links of that page that point to the post-redirect host (http or
\* https, not yet visited) are enqueued.
C17_RedirectHostAdopted ==
  [][(pages = <<>> /\ pages' # <<>>
        /\ Netloc(pages'[1].final) # Netloc(self_url)) =>
       \A k \in DOMAIN pages'[1].links :
         LET href == pages'[1].links[k]
             full_url == Normalise(Urljoin(pages'[1].final, href))
         IN  (/\ ~Skipped(href) /\ ~UrljoinRaises(href)
              /\ Netloc(full_url) = Netloc(pages'[1].final)
              /\ Scheme(full_url) \in {"http", "https"}
              /\ full_url \notin visited) =>
               \E m \in DOMAIN queue' : queue'[m] = full_url]_vars

\* C18: a response that is not HTML adds nothing to pages (so nothing to the
\* page count), to the visited set, to visited_urls or to the queue.
C18_NonHtmlDiscarded ==
  [][(/\ FetchStep
      /\ fetches'[Len(fetches')].ok
      /\ fetches'[Len(fetches')].ctype \in {CtPdf, CtNone}) =>
       /\ pages' = pages
       /\ visited' = visited /\ visited_urls' = visited_urls
       /\ queue' = Tail(queue)]_vars

\* the crawl filled its budget although a fetch before the last page was
\* answered with a PDF
C18_Witness ==
  /\ kpc = "returned" /\ Len(pages) = self_max_pages
  /\ \E i \in DOMAIN fetches :
       /\ fetches[i].ok /\ fetches[i].ctype = CtPdf
       /\ i < Len(fetches)

\* the href resolves to an http(s) url on the host of base
InScope(base, href) ==
  /\ ~Skipped(href)
  /\ Scheme(Urljoin(base, href)) \in {"http", "https"}
  /\ Netloc(Urljoin(base, href)) = Netloc(base)

\* C19: when the entry page is HTML and none of its links is in scope, the
\* crawl returns exactly that one page and its queue is empty.
C19_SinglePageSite ==
  (/\ kpc = "returned"
   /\ fetches # <<>> /\ fetches[1].ok /\ fetches[1].ctype = CtHtml
   /\ \A k \in DOMAIN pages[1].links : ~InScope(self_url, pages[1].links[k]))
    => (Len(pages) = 1 /\ pages[1].url = self_url /\ queue = <<>>)

\* a crawl with budget for more returned one page that links elsewhere only
C19_Witness ==
  /\ kpc = "returned" /\ Len(pages) = 1 /\ self_max_pages > 1
  /\ pages[1].links =
       << <<HASH, "top">>, <<MAILTO, "x">>, <<HTTPS, ELSEWHERE, SLASH>> >>

\* C20: the normalisation applied to a discovered link gives back its own
\* output: for every link of every fetched page, normalising the normalised
\* url changes nothing.
C20_NormaliseIdempotent ==
  \A i \in DOMAIN pages :
    \A k \in DOMAIN pages[i].links :
      LET href == pages[i].links[k]
          full_url == Urljoin(pages[i].url, href)
      IN  (~Skipped(href) /\ ~UrljoinRaises(href)) =>
            Normalise(Normalise(full_url)) = Normalise(full_url)

\* a link with a trailing slash and a fragment was normalised and enqueued
C20_Witness ==
  /\ \E i \in DOMAIN pages : \E k \in DOMAIN pages[i].links :
       pages[i].links[k] = <<SLASH, "a", SLASH, HASH, "top">>
  /\ <<HTTPS, UP, SLASH, "a">> \in visited

\* the links the loop of the link check has gone through
Probed == { bl_links[i] : i \in 1..(bl_next - 1) }

\* positions in httplog of the requests made for a link
HeadsOf(u) ==
  { i \in DOMAIN httplog : httplog[i].method = "HEAD" /\ httplog[i].url = u }
GetsOf(u) ==
  { i \in DOMAIN httplog : httplog[i].method = "GET" /\ httplog[i].url = u }

\* how a link is listed by the link check
ListedWorking(u) ==
  /\ \E i \in DOMAIN bl.working : bl.working[i] = u
  /\ \A i \in DOMAIN bl.broken : bl.broken[i].url # u
ListedBroken(u, status) ==
  /\ \E i \in DOMAIN bl.broken :
       bl.broken[i].url = u /\ bl.broken[i].status_code = status
  /\ \A i \in DOMAIN bl.working : bl.working[i] # u

\* C21: a link whose HEAD status is below 400 is OK; at 400 or above and
\* outside {403, 405, 406, 429, 503} it is broken with the HEAD status; inside
\* that set a GET is made, and the link is OK when the GET status is below
\* 400 or again in the set, else broken with the GET status.
C21_StatusClassification ==
  \A u \in Probed : \A i \in HeadsOf(u) :
    httplog[i].ans.kind = "status" =>
      LET c == httplog[i].ans.code
      IN  /\ c < 400 => ListedWorking(u)
          /\ (c >= 400 /\ c \notin {403, 405, 406, 429, 503}) =>
               ListedBroken(u, JInt(c))
          /\ c \in {403, 405, 406, 429, 503} =>
               /\ GetsOf(u) # {}
               /\ \A k \in GetsOf(u) :
                    httplog[k].ans.kind = "status" =>
                      LET g == httplog[k].ans.code
                      IN  IF g < 400 \/ g \in {403, 405, 406, 429, 503}
                          THEN ListedWorking(u)
                          ELSE ListedBroken(u, JInt(g))

\* a link answered 403 to the HEAD and 200 to the GET is listed as working
C21_Witness ==
  \E u \in Probed : \E i \in HeadsOf(u) : \E k \in GetsOf(u) :
    /\ httplog[i].ans = Answered(403)
    /\ httplog[k].ans = Answered(200)
    /\ ListedWorking(u)

\* C22: every link the check has gone through is listed exactly once, in the
\* broken list or in the working list, so the two counts add up to the
\* number of links probed.
C22_OneOutcomePerLink ==
  /\ \A u \in Probed :
       Cardinality({i \in DOMAIN bl.broken : bl.broken[i].url = u})
         + Cardinality({i \in DOMAIN bl.working : bl.working[i] = u}) = 1
  /\ Len(bl.broken) + Len(bl.working) = bl_next - 1
  /\ ppc = "returned" => Len(bl.broken) + Len(bl.working) = Len(bl_links)

\* the check of a page with two links returned one broken and one working
C22_Witness ==
  /\ ppc = "returned" /\ Len(bl_links) = 2
  /\ Len(bl.broken) = 1 /\ Len(bl.working) = 1

\* C23: for one link there is exactly one HEAD and at most one GET, the GET
\* being made exactly when the HEAD was answered with a status in
\* {403, 405, 406, 429, 503}; no request is made for any other url.
C23_AtMostTwoRequests ==
  /\ \A u \in Probed :
       /\ Cardinality(HeadsOf(u)) = 1
       /\ Cardinality(GetsOf(u)) <= 1
       /\ \A i \in HeadsOf(u) :
            /\ GetsOf(u) # {} <=>
                 (/\ httplog[i].ans.kind = "status"
                  /\ httplog[i].ans.code \in {403, 405, 406, 429, 503})
            /\ GetsOf(u) \subseteq {i + 1}
  /\ \A i \in DOMAIN httplog : httplog[i].url \in Probed

\* a HEAD that timed out was not tried again, and a GET answered 500 was
\* the last request for its link
C23_Witness ==
  \E u, w \in Probed :
    /\ \E i \in HeadsOf(u) :
         httplog[i].ans.kind = "raise" /\ GetsOf(u) = {}
    /\ \E k \in GetsOf(w) : httplog[k].ans = Answered(500) /\ k = Len(httplog)

\* C24: a HEAD that fails with a connection error whose message says that
\* the name is not known (either wording) lists the link as broken with
\* status 'DNS Error' and reason 'Domain not found'.
C24_DnsFailure ==
  \A i \in DOMAIN httplog :
    (/\ httplog[i].method = "HEAD"
     /\ httplog[i].ans.kind = "raise"
     /\ httplog[i].ans.type = "ConnectionError"
     /\ \E k \in DOMAIN httplog[i].ans.msg :
          httplog[i].ans.msg[k] \in {MsgDnsLinux, MsgDnsMac}) =>
      \E k \in DOMAIN bl.broken :
        bl.broken[k] = [url |-> httplog[i].url,
                        status_code |-> JStr(<<"DNS Error">>),
                        reason |-> <<"Domain not found">>,
                        found_on |-> on_page_url]

\* both wordings of the resolver's message were met
C24_Witness ==
  /\ Len(bl.broken) = 2
  /\ \A k \in DOMAIN bl.broken : bl.broken[k].status_code = JStr(<<"DNS Error">>)
  /\ \E i, j \in DOMAIN httplog :
       /\ MsgDnsLinux = httplog[i].ans.msg[2]
       /\ MsgDnsMac = httplog[j].ans.msg[2]

\* analyze() has returned the report of a crawl that found pages
Reported == apc = "returned" /\ pages # <<>>

\* the pair (issue name, first 60 characters of the description)
PairOf(i) == <<i.issue, Prefix60(i.description)>>

\* the first occurrence of every pair, in the order of first occurrence
RECURSIVE FirstOfEachPair(_, _)
FirstOfEachPair(issues, out) ==
  IF issues = <<>> THEN out
  ELSE IF \E k \in DOMAIN out : PairOf(out[k]) = PairOf(Head(issues))
  THEN FirstOfEachPair(Tail(issues), out)
  ELSE FirstOfEachPair(Tail(issues), Append(out, Head(issues)))

\* C25: in the report, the issues of a category are the concatenated issues of
\* the pages with two of them merged exactly when they have the same name and
\* the same first 60 characters of description: the first occurrence of each
\* such pair is kept, in the order of first occurrence.
C25_IssuesMergedByPair ==
  Reported =>
    \A c \in Categories :
      report[1].sections[c].issues = FirstOfEachPair(agg.issues[c], <<>>)

\* a report whose pages gave one category two issues that were merged and two
\* of the same name that were not
C25_Witness ==
  /\ Reported
  /\ \E c \in Categories :
       LET all == agg.issues[c]
       IN  /\ \E i, j \in DOMAIN all :
                i < j /\ all[i] # all[j] /\ PairOf(all[i]) = PairOf(all[j])
           /\ \E i, j \in DOMAIN all :
                i < j /\ all[i].issue = all[j].issue
                      /\ PairOf(all[i]) # PairOf(all[j])
           /\ Len(report[1].sections[c].issues) < Len(all)

\* C26: each category score of the report is the mean of the category's
\* per-page scores rounded to the nearest integer, a mean ending in .5 rounded
\* up, and lies in 0..100.
C26_ScoreIsRoundedMean ==
  Reported =>
    \A c \in Categories :
      agg.scores[c] # <<>> =>
        /\ LET s == Sum(agg.scores[c])
               n == Len(agg.scores[c])
           IN  report[1].sections[c].score = (2 * s + n) \div (2 * n)
        /\ report[1].sections[c].score \in 0..100

\* the link checks made so far, one per analysed page, in order
LinkChecks ==
  SelectSeq(calls, LAMBDA c : c.fn = "_check_broken_links_for_page")

\* the urls a link check returned as broken
BrokenUrls(check) == {check.broken[i].url : i \in DOMAIN check.broken}

\* C27: the report lists each broken url once, every url some page's link
\* check found broken is listed, and the entry listed for a url is the one of
\* the first page, in crawl order, whose check found it broken.
C27_BrokenOncePerUrl ==
  Reported =>
    LET listed == report[1].broken_links.broken
    IN  /\ \A i, j \in DOMAIN listed :
             i # j => listed[i].url # listed[j].url
        /\ \A k \in DOMAIN LinkChecks :
             \A u \in BrokenUrls(LinkChecks[k]) :
               \E i \in DOMAIN listed : listed[i].url = u
        /\ \A i \in DOMAIN listed :
             \E k \in DOMAIN LinkChecks :
               /\ \E n \in DOMAIN LinkChecks[k].broken :
                    LinkChecks[k].broken[n] = listed[i]
               /\ listed[i].found_on = LinkChecks[k].url
               /\ \A m \in 1..(k - 1) :
                    listed[i].url \notin BrokenUrls(LinkChecks[m])

\* a report after two different pages whose link checks both found the same
\* url broken
C27_Witness ==
  /\ Reported
  /\ \E k, m \in DOMAIN LinkChecks :
       /\ k < m /\ LinkChecks[k].url # LinkChecks[m].url
       /\ BrokenUrls(LinkChecks[k]) \cap BrokenUrls(LinkChecks[m]) # {}

\* the urls of a sequence of records with a url field, in order
UrlsOf(seq) == [i \in DOMAIN seq |-> seq[i].url]

\* C28: every fetch takes the url at the head of the queue and discovered
\* links join the queue at its tail; the pages are the urls fetched as HTML in
\* the order of their fetches; the pages are analysed in that order; and the
\* report's crawled_urls and per_page_summary list them in that order.
C28_CrawlOrderKept ==
  [][
      /\ FetchStep =>
          /\ fetches'[Len(fetches')].url = Head(queue)
          /\ Len(queue') >= Len(queue) - 1
          /\ SubSeq(queue', 1, Len(queue) - 1) = Tail(queue)
      /\ PageUrls(pages') = HtmlUrls(fetches')
      /\ Len(LinkChecks') <= Len(pages')
      /\ UrlsOf(LinkChecks') = PageUrls(SubSeq(pages', 1, Len(LinkChecks')))
      /\ Reported' =>
          /\ report'[1].crawled_urls = PageUrls(pages')
          /\ UrlsOf(report'[1].per_page_summary) = PageUrls(pages')
          /\ Len(LinkChecks') = Len(pages')
    ]_vars

\* a report over two different pages with a fetch between them that gave no
\* page
C28_Witness ==
  /\ Reported /\ Len(pages) = 2 /\ pages[1].url # pages[2].url
  /\ Len(fetches) = 3 /\ HtmlUrls(SubSeq(fetches, 2, 2)) = <<>>

\* C29: when the crawl returns no page, analyze() does not raise, runs no
\* checker and no link probe, and what it returns has pages_crawled = 0, an
\* empty crawled_urls and a non-empty error.
C29_EmptyCrawlReport ==
  (kpc = "returned" /\ pages = <<>>) =>
    /\ apc \in {"none", "returned"}
    /\ calls = <<>> /\ httplog = <<>>
    /\ apc = "returned" =>
         /\ Len(report) = 1
         /\ report[1].pages_crawled = 0
         /\ report[1].crawled_urls = <<>>
         /\ report[1].error # <<>>

\* analyze() has returned after a crawl whose every fetch gave no page
C29_Witness ==
  /\ kpc = "returned" /\ pages = <<>> /\ fetches # <<>>
  /\ apc = "returned" /\ report # <<>>

\* the record of job j was last written by a progress callback
Called(j) == j \in jobs /\ ncb[j] > 0 /\ wpc[j] = "analyze"

C32_ExceptionOutcomes ==
  \A i \in DOMAIN httplog :
    (httplog[i].method = "HEAD" /\ httplog[i].ans.kind = "raise") =>
      LET t == httplog[i].ans.type
          m == httplog[i].ans.msg
          says(text) == \E k \in DOMAIN m : m[k] = text
          listed(kind) == ListedBroken(httplog[i].url, JStr(<<kind>>))
      IN  /\ t = "SSLError" => listed("SSL Error")
          /\ t \in {"ConnectTimeout", "ReadTimeout"} => listed("Timeout")
          /\ t = "TooManyRedirects" => listed("Redirect Loop")
          /\ t = "ConnectionError" =>
               /\ (says(MsgDnsLinux) \/ says(MsgDnsMac)) => listed("DNS Error")
               /\ says(MsgRefused) => listed("Refused")
               /\ says(MsgReset) => listed("N/A")
          /\ t = "InvalidSchema" => listed("Error")

\* C33: a url that link discovery enqueues is the resolved absolute form of
\* one of the page's links, as urljoin gave it; the normalised string is the
\* key of the visited set only.
C33_EnqueuedAsResolved ==
  [][(FetchStep /\ Len(pages') = Len(pages) + 1) =>
       \A k \in Len(queue)..Len(queue') :
         \E i \in DOMAIN pages'[Len(pages')].links :
           LET href == pages'[Len(pages')].links[i]
           IN  /\ ~Skipped(href) /\ ~UrljoinRaises(href)
               /\ queue'[k] = Urljoin(Head(queue), href)]_vars

\* C34: an error raised while a page is analysed, in a checker or while the
\* page's candidate links are extracted and resolved, does not leave
\* analyze(): every page whose link check was entered also gets its remaining
\* checks, and the run goes on.
C34_PageErrorsContained ==
  /\ apc # "raised"
  /\ \A k \in DOMAIN calls :
       calls[k].fn = "_check_broken_links_for_page" =>
         /\ k + 5 <= Len(calls)
         /\ calls[k + 5].fn = "_check_mobile_for_page"
         /\ calls[k + 5].url = calls[k].url

Removed == {j \in JobIds : j < nextId /\ j \notin jobs}

CallsTo(fn) == {k \in DOMAIN calls : calls[k].fn = fn}

\* C37: a non-empty list returned by the crawl starts with the entry url as
\* given and holds it once; so a run of analyze() over a non-empty list makes
\* the security check once and the improvement suggestions once, and the list
\* of security scores behind the report is not empty.
C37_EntryPageOnce ==
  /\ (kpc = "returned" /\ pages # <<>>) =>
       /\ pages[1].url = self_url
       /\ Cardinality({i \in DOMAIN pages : pages[i].url = self_url}) = 1
  /\ (apc \in {"returned", "raised"} /\ pages # <<>>) =>
       /\ Cardinality(CallsTo("check_security")) = 1
       /\ Cardinality(CallsTo("_suggest_improvements_for_page")) = 1
  /\ Reported => agg.scores["security"] # <<>>

\* the url strings fetched so far followed by those waiting in the queue
FetchedThenQueued == UrlsOf(fetches) \o queue

\* C38: every url in the queue is in the visited set, and no url string is
\* enqueued twice or fetched twice: the strings fetched so far and those
\* still queued are all different.
C38_FrontierVisitedOnce ==
  kpc # "none" =>
    /\ \A i \in DOMAIN queue : queue[i] \in visited
    /\ \A i, k \in DOMAIN FetchedThenQueued :
         i # k => FetchedThenQueued[i] # FetchedThenQueued[k]

\* a page with two links to one url was fetched, the url was enqueued once
\* and fetched
C38_Witness ==
  /\ \E i \in DOMAIN pages :
       pages[i].links = << <<SLASH, "a">>, <<SLASH, "a", SLASH>> >>
  /\ Len(fetches) = 2 /\ queue = <<>>
  /\ fetches[2].url = <<HTTPS, UP, SLASH, "a">>

\* C39: when the HEAD status of a link is one of 403, 405, 406, 429, 503 and
\* the GET made for it raises, whatever the exception, the link is listed as
\* broken with the status and the reason of the HEAD response.
C39_RetryFailureKeepsHead ==
  \A u \in Probed : \A i \in HeadsOf(u) : \A k \in GetsOf(u) :
    (/\ httplog[i].ans.kind = "status"
     /\ httplog[i].ans.code \in {403, 405, 406, 429, 503}
     /\ httplog[k].ans.kind = "raise") =>
      /\ \E n \in DOMAIN bl.broken :
           bl.broken[n] = [url |-> u,
                           status_code |-> JInt(httplog[i].ans.code),
                           reason |-> ReasonOf(httplog[i].ans.code),
                           found_on |-> on_page_url]
      /\ ListedBroken(u, JInt(httplog[i].ans.code))

\* a link answered 429 to the HEAD whose GET failed to resolve the name is
\* listed with 429
C39_Witness ==
  \E u \in Probed : \E i \in HeadsOf(u) : \E k \in GetsOf(u) :
    /\ httplog[i].ans = Answered(429)
    /\ httplog[k].ans = Raised("ConnectionError", <<MsgRetries, MsgDnsLinux>>)
    /\ ListedBroken(u, JInt(429))

====
